---- MODULE Spec2Model ----
(***************************************************************************)
(* A model of pyuxn (src/pyuxn.py): a Uxn virtual machine written in       *)
(* Python.  The machine state is the Uxn object (pc, mem, dev, ws, rs),    *)
(* the standard-output stream and the position of the host (main).         *)
(* Each handler op_xxx of the source is an operator on a machine record;   *)
(* one action executes one iteration of run_vector's loop.                 *)
(***************************************************************************)
EXTENDS Integers, Sequences, FiniteSets, TLC

VARIABLES pc, mem, dev, ws, rs, out, status, exitCode, loads, vectors, prog, lastOp

vars == <<pc, mem, dev, ws, rs, out, status, exitCode, loads, vectors, prog, lastOp>>

(***************************************************************************)
(* Bounds of the model.                                                    *)
(***************************************************************************)
MaxLoads == 2
MaxVectors == 2
\* the loop of run_vector is followed while no stack is deeper than this
MaxDepth == 258

(***************************************************************************)
(* Python bytearray / bytes.  A byte array is kept as its length and the   *)
(* map of its non-zero bytes (the arrays of the program are 64 KiB of      *)
(* mostly zero bytes); the map never holds a zero, so equal arrays are     *)
(* equal records.                                                          *)
(***************************************************************************)
Min(a, b) == IF a < b THEN a ELSE b
Max(a, b) == IF a > b THEN a ELSE b

bytearray(n) == [len |-> n, nz |-> [i \in {} |-> 0]]

\* bytes(seq): the byte string holding the bytes of seq, index 0 first
bytes(seq) ==
  [len |-> Len(seq),
   nz  |-> [i \in {j \in 0 .. Len(seq) - 1 : seq[j + 1] # 0} |-> seq[i + 1]]]

\* the byte string seq followed by zero bytes up to length n
padded(seq, n) == [len |-> n, nz |-> bytes(seq).nz]

\* ba[i] for an index already normalised to 0 .. len-1
ByteAt(ba, i) == IF i \in DOMAIN ba.nz THEN ba.nz[i] ELSE 0

\* Python subscript: ba[i] is defined for -len <= i < len, negative
\* indices count from the end; anything else raises IndexError
IndexOK(ba, i) == (0 - ba.len) <= i /\ i < ba.len
NormIndex(ba, i) == IF i < 0 THEN i + ba.len ELSE i
GetItem(ba, i) == IF IndexOK(ba, i) THEN ByteAt(ba, NormIndex(ba, i)) ELSE 0

\* ba[i] = v, for IndexOK(ba, i) and v in 0..255
SetItem(ba, i, v) ==
  LET k == NormIndex(ba, i)
      d == IF v = 0 THEN DOMAIN ba.nz \ {k} ELSE DOMAIN ba.nz \cup {k}
  IN [ba EXCEPT !.nz = [a \in d |-> IF a = k THEN v ELSE ba.nz[a]]]

\* slice bounds are clamped to 0 .. len, negative ones count from the end
SliceIndex(n, i) == IF i < 0 THEN Max(i + n, 0) ELSE Min(i, n)

\* ba[start:stop] as a sequence of bytes
GetSlice(ba, start, stop) ==
  LET lo == SliceIndex(ba.len, start)
      hi == Max(SliceIndex(ba.len, stop), lo)
  IN [i \in 1 .. (hi - lo) |-> ByteAt(ba, lo + i - 1)]

\* ba[start:stop] = src : the bytes start..stop-1 are replaced by all of
\* src, the tail of ba moves, the length changes by len(src) - (stop-start)
SetSlice(ba, start, stop, src) ==
  LET lo == SliceIndex(ba.len, start)
      hi == Max(SliceIndex(ba.len, stop), lo)
      shift == src.len - (hi - lo)
      head == {a \in DOMAIN ba.nz : a < lo}
      tail == {a \in DOMAIN ba.nz : a >= hi}
      mid  == {lo + i : i \in DOMAIN src.nz}
      moved == {a + shift : a \in tail}
  IN [len |-> ba.len + shift,
      nz  |-> [a \in head \cup mid \cup moved |->
                 IF a \in mid THEN src.nz[a - lo]
                 ELSE IF a \in head THEN ba.nz[a]
                 ELSE ba.nz[a - shift]]]

(***************************************************************************)
(* struct.unpack_from(fmt, buffer, offset) on a buffer of n bytes for a    *)
(* format of size bytes: a negative offset counts from the end; the read   *)
(* raises struct.error unless size bytes lie between the offset and the    *)
(* end of the buffer.                                                      *)
(***************************************************************************)
UnpackStart(n, offset) == IF offset < 0 THEN offset + n ELSE offset
UnpackOK(n, offset, size) ==
  /\ UnpackStart(n, offset) >= 0
  /\ n - UnpackStart(n, offset) >= size

\* two's-complement reading of a byte / of a 16-bit value
Signed8(b) == IF b >= 128 THEN b - 256 ELSE b
Signed16(v) == IF v >= 32768 THEN v - 65536 ELSE v

(***************************************************************************)
(* The machine record u: the fields of Uxn, the characters written to      *)
(* sys.stdout, and how the running handler has ended so far:               *)
(*   st = "ok"    still executing, nothing raised                          *)
(*   st = "halt"  op_imm returned 1 (BRK)                                  *)
(*   st = "err"   an exception was raised (AssertionError, IndexError,     *)
(*                struct.error, KeyError, TypeError, ValueError, ...)      *)
(*   st = "exit"  exit(code) was called (SystemExit)                       *)
(* Once st is not "ok" the rest of the handler does not run: every         *)
(* statement below leaves such a record as it is.                          *)
(***************************************************************************)
Raise(u) == IF u.st = "ok" THEN [u EXCEPT !.st = "err"] ELSE u

\* continue only when cond holds, raise otherwise
Require(u, cond) == IF u.st = "ok" /\ ~cond THEN [u EXCEPT !.st = "err"] ELSE u

capacity == 256

\* s = u.rs if moder else u.ws
Stack(u, moder) == IF moder = 1 THEN u.rs ELSE u.ws
WithStack(u, moder, s) ==
  IF moder = 1 THEN [u EXCEPT !.rs = s] ELSE [u EXCEPT !.ws = s]

\* FixedSizeStack.push: assert len(self) < self.capacity; append(b)
push(u, moder, b) ==
  IF u.st # "ok" THEN u
  ELSE IF Len(Stack(u, moder)) < capacity
       THEN WithStack(u, moder, Append(Stack(u, moder), b))
       ELSE Raise(u)

\* bytearray.extend(seq): appends, with no capacity check
extend(u, moder, seq) ==
  IF u.st # "ok" THEN u ELSE WithStack(u, moder, Stack(u, moder) \o seq)

\* bytearray.pop(): the machine after s.pop() and the byte it returns
pop(u, moder) ==
  IF u.st # "ok" THEN u
  ELSE IF Len(Stack(u, moder)) = 0 THEN Raise(u)
       ELSE WithStack(u, moder,
                      SubSeq(Stack(u, moder), 1, Len(Stack(u, moder)) - 1))
popped(u, moder) ==
  IF Len(Stack(u, moder)) = 0 THEN 0
  ELSE Stack(u, moder)[Len(Stack(u, moder))]

\* s[-k]: IndexError unless the stack holds k bytes
HasItem(s, k) == Len(s) >= k
Item(s, k) == IF Len(s) >= k THEN s[Len(s) + 1 - k] ELSE 0

\* struct.unpack_from(">H", ba, offset)[0] on a stack
ushort_peek_ok(s, offset) == UnpackOK(Len(s), offset, 2)
ushort_peek(s, offset) ==
  IF ushort_peek_ok(s, offset)
  THEN s[UnpackStart(Len(s), offset) + 1] * 256
       + s[UnpackStart(Len(s), offset) + 2]
  ELSE 0

\* struct.unpack_from(">h", ba, offset)[0] on the memory
sshort_peek_ok(ba, offset) == UnpackOK(ba.len, offset, 2)
sshort_peek(ba, offset) ==
  IF sshort_peek_ok(ba, offset)
  THEN Signed16(ByteAt(ba, UnpackStart(ba.len, offset)) * 256
                + ByteAt(ba, UnpackStart(ba.len, offset) + 1))
  ELSE 0

\* struct.unpack_from("@b", s, offset)[0]
speek_ok(s, offset) == UnpackOK(Len(s), offset, 1)
speek(s, offset) ==
  IF speek_ok(s, offset) THEN Signed8(s[UnpackStart(Len(s), offset) + 1])
  ELSE 0

\* spop: the signed top byte, then s.pop()
spop(u, moder) ==
  pop(Require(u, speek_ok(Stack(u, moder), Len(Stack(u, moder)) - 1)), moder)
spopped(u, moder) == speek(Stack(u, moder), Len(Stack(u, moder)) - 1)

\* ushort_pop: r = ushort_peek(s, len(s)-2); s.pop(); s.pop(); return r
ushort_pop(u, moder) ==
  pop(pop(Require(u, ushort_peek_ok(Stack(u, moder),
                                    Len(Stack(u, moder)) - 2)),
          moder), moder)
ushort_popped(u, moder) ==
  ushort_peek(Stack(u, moder), Len(Stack(u, moder)) - 2)

\* sshort_pop: as ushort_pop, the value read as signed
sshort_pop(u, moder) == ushort_pop(u, moder)
sshort_popped(u, moder) == Signed16(ushort_popped(u, moder))

(***************************************************************************)
(* The operand idioms the handlers repeat.                                 *)
(***************************************************************************)
\* `ushort_pop(s) if mode2 else s.pop()`: the machine after, and the value
take(u, mode2, moder) ==
  IF mode2 = 1 THEN ushort_pop(u, moder) ELSE pop(u, moder)
taken(u, mode2, moder) ==
  IF mode2 = 1 THEN ushort_popped(u, moder) ELSE popped(u, moder)

\* `ushort_peek(s, len(s)-2*k) if mode2 else s[-k]`, for the k-th operand
look_ok(u, mode2, moder, k) ==
  IF mode2 = 1
  THEN ushort_peek_ok(Stack(u, moder), Len(Stack(u, moder)) - 2 * k)
  ELSE HasItem(Stack(u, moder), k)
look(u, mode2, moder, k) ==
  IF mode2 = 1
  THEN ushort_peek(Stack(u, moder), Len(Stack(u, moder)) - 2 * k)
  ELSE Item(Stack(u, moder), k)

\* the machine once the first n operands have been read, by peek when
\* modek and by pop otherwise
RECURSIVE operands(_, _, _, _, _)
operands(u, mode2, moder, modek, n) ==
  IF n = 0 THEN u
  ELSE IF modek = 1
       THEN Require(operands(u, mode2, moder, modek, n - 1),
                    look_ok(u, mode2, moder, n))
       ELSE take(operands(u, mode2, moder, modek, n - 1), mode2, moder)

\* the value of the n-th operand read that way (1 = top)
operand(u, mode2, moder, modek, n) ==
  IF modek = 1 THEN look(u, mode2, moder, n)
  ELSE taken(operands(u, mode2, moder, 0, n - 1), mode2, moder)

\* `if mode2: s.push(v >> 8)` then `s.push(v & 0xff)`, for v < 2^16
pushv(u, mode2, moder, v) ==
  IF mode2 = 1 THEN push(push(u, moder, v \div 256), moder, v % 256)
  ELSE push(u, moder, v % 256)

(***************************************************************************)
(* Ops                                                                     *)
(***************************************************************************)
\* an assignment to u.pc
goto(u, addr) == IF u.st # "ok" THEN u ELSE [u EXCEPT !.pc = addr]

op_jci(u) ==
  LET u1 == pop(u, 0)
      u2 == IF popped(u, 0) # 0
            THEN goto(Require(u1, sshort_peek_ok(u1.mem, u1.pc)),
                      u1.pc + sshort_peek(u1.mem, u1.pc))
            ELSE u1
  IN goto(u2, u2.pc + 2)

op_jmi(u) ==
  goto(Require(u, sshort_peek_ok(u.mem, u.pc)),
       u.pc + sshort_peek(u.mem, u.pc) + 2)

op_jsi(u) ==
  LET offset_ptr == u.pc
      u1 == goto(u, u.pc + 2)
      u2 == push(u1, 1, (u1.pc % 65536) \div 256)
      u3 == push(u2, 1, u1.pc % 256)
      u4 == Require(u3, sshort_peek_ok(u3.mem, offset_ptr))
  IN goto(u4, u4.pc + sshort_peek(u4.mem, offset_ptr))

\* op_lit that pushes on the working stack whatever moder is
op_lit_ws_only(u, mode2, moder, modek) ==
  LET npc == u.pc + 1 + mode2
      lit == GetSlice(u.mem, u.pc, npc)
  IN goto(extend(u, 0, lit), npc)

op_lit(u, mode2, moder, modek) ==
  LET npc == u.pc + 1 + mode2
      lit == GetSlice(u.mem, u.pc, npc)
  IN goto(extend(u, moder, lit), npc)

\* op_imm with `return 1` also in the JMI case
op_imm_jmi_returns(u, mode2, moder, modek) ==
  IF modek = 1 THEN op_lit(u, mode2, moder, modek)
  ELSE IF mode2 = 0 /\ moder = 0 THEN [u EXCEPT !.st = "halt"]
  ELSE IF mode2 = 1 /\ moder = 0 THEN op_jci(u)
  ELSE IF mode2 = 0 /\ moder = 1 THEN [op_jmi(u) EXCEPT !.st = "halt"]
  ELSE op_jsi(u)

\* the dispatch of opcode 0x00 on its mode bits; BRK returns 1
op_imm(u, mode2, moder, modek) ==
  IF modek = 1 THEN op_lit(u, mode2, moder, modek)
  ELSE IF mode2 = 0 /\ moder = 0 THEN [u EXCEPT !.st = "halt"]
  ELSE IF mode2 = 1 /\ moder = 0 THEN op_jci(u)
  ELSE IF mode2 = 0 /\ moder = 1 THEN op_jmi(u)
  ELSE op_jsi(u)

op_inc(u, mode2, moder, modek) ==
  IF mode2 = 1
  THEN LET x == (ushort_popped(u, moder) + 1) % 65536
       IN push(push(ushort_pop(u, moder), moder, x \div 256), moder, x % 256)
  ELSE push(pop(u, moder), moder, (popped(u, moder) + 1) % 256)

op_pop(u, mode2, moder, modek) ==
  IF mode2 = 1 THEN pop(pop(u, moder), moder) ELSE pop(u, moder)

op_nip(u, mode2, moder, modek) ==
  LET top == operand(u, mode2, moder, modek, 1)
      u1 == operands(u, mode2, moder, modek, 1)
      u2 == IF modek = 1 THEN u1
            ELSE IF mode2 = 1 THEN pop(pop(u1, moder), moder)
            ELSE pop(u1, moder)
  IN pushv(u2, mode2, moder, top)

op_swp(u, mode2, moder, modek) ==
  LET top == operand(u, mode2, moder, modek, 1)
      bot == operand(u, mode2, moder, modek, 2)
      u1 == operands(u, mode2, moder, modek, 2)
  IN pushv(pushv(u1, mode2, moder, top), mode2, moder, bot)

op_rot(u, mode2, moder, modek) ==
  LET top == operand(u, mode2, moder, modek, 1)
      mid == operand(u, mode2, moder, modek, 2)
      bot == operand(u, mode2, moder, modek, 3)
      u1 == operands(u, mode2, moder, modek, 3)
  IN pushv(pushv(pushv(u1, mode2, moder, mid), mode2, moder, top),
           mode2, moder, bot)

op_dup(u, mode2, moder, modek) ==
  LET top == operand(u, mode2, moder, modek, 1)
      u1 == operands(u, mode2, moder, modek, 1)
  IN pushv(pushv(u1, mode2, moder, top), mode2, moder, top)

op_ovr(u, mode2, moder, modek) ==
  LET top == operand(u, mode2, moder, modek, 1)
      bot == operand(u, mode2, moder, modek, 2)
      u1 == operands(u, mode2, moder, modek, 2)
  IN pushv(pushv(pushv(u1, mode2, moder, bot), mode2, moder, top),
           mode2, moder, bot)

\* int(b) of a Python bool
int(b) == IF b THEN 1 ELSE 0

op_equ(u, mode2, moder, modek) ==
  LET top == operand(u, mode2, moder, modek, 1)
      bot == operand(u, mode2, moder, modek, 2)
  IN push(operands(u, mode2, moder, modek, 2), moder, int(bot = top))

op_neq(u, mode2, moder, modek) ==
  LET top == operand(u, mode2, moder, modek, 1)
      bot == operand(u, mode2, moder, modek, 2)
  IN push(operands(u, mode2, moder, modek, 2), moder, int(bot # top))

\* res = first-read < second-read, the top operand being read first
op_gth(u, mode2, moder, modek) ==
  LET first == operand(u, mode2, moder, modek, 1)
      second == operand(u, mode2, moder, modek, 2)
  IN push(operands(u, mode2, moder, modek, 2), moder, int(first < second))

\* op_lth with the comparison turned round in keep mode
op_lth_keep_inverted(u, mode2, moder, modek) ==
  LET first == operand(u, mode2, moder, modek, 1)
      second == operand(u, mode2, moder, modek, 2)
      res == IF modek = 1 THEN first < second ELSE first > second
  IN push(operands(u, mode2, moder, modek, 2), moder, int(res))

op_lth(u, mode2, moder, modek) ==
  LET first == operand(u, mode2, moder, modek, 1)
      second == operand(u, mode2, moder, modek, 2)
  IN push(operands(u, mode2, moder, modek, 2), moder, int(first > second))

\* op_jmp reading its offset byte as unsigned
op_jmp_unsigned(u, mode2, moder, modek) ==
  IF mode2 = 1
  THEN LET lo == popped(u, moder)
           hi == popped(pop(u, moder), moder)
       IN goto(pop(pop(u, moder), moder), lo + hi * 256)
  ELSE goto(pop(u, moder), u.pc + popped(u, moder))

op_jmp(u, mode2, moder, modek) ==
  IF mode2 = 1
  THEN LET lo == popped(u, moder)
           hi == popped(pop(u, moder), moder)
       IN goto(pop(pop(u, moder), moder), lo + hi * 256)
  ELSE goto(spop(u, moder), u.pc + spopped(u, moder))

op_jcn(u, mode2, moder, modek) ==
  LET s == Stack(u, moder)
      addr == IF mode2 = 1 THEN ushort_peek(s, Len(s) - 2)
              ELSE u.pc + speek(s, Len(s) - 1)
      u1 == IF modek = 1
            THEN Require(u, IF mode2 = 1 THEN ushort_peek_ok(s, Len(s) - 2)
                            ELSE speek_ok(s, Len(s) - 1))
            ELSE IF mode2 = 1 THEN ushort_pop(u, moder) ELSE spop(u, moder)
      cond == IF modek = 1 THEN Item(s, 2 + mode2) ELSE popped(u1, moder)
      u2 == IF modek = 1 THEN Require(u1, HasItem(s, 2 + mode2))
            ELSE pop(u1, moder)
  IN IF cond # 0 THEN goto(u2, addr) ELSE u2

\* s2.extend((pc >> 8, pc & 255)) raises ValueError unless pc >> 8 is a
\* byte; with modek the peeks are called without their offset argument,
\* which raises TypeError after s2 was extended
op_jsr(u, mode2, moder, modek) ==
  LET s1 == moder
      s2 == 1 - moder
      u1 == extend(Require(u, u.pc \div 256 >= 0 /\ u.pc \div 256 <= 255),
                   s2, <<u.pc \div 256, u.pc % 256>>)
      addr == IF mode2 = 1 THEN ushort_popped(u1, s1)
              ELSE u1.pc + spopped(u1, s1)
      u2 == IF modek = 1 THEN Raise(u1)
            ELSE IF mode2 = 1 THEN ushort_pop(u1, s1) ELSE spop(u1, s1)
  IN goto(u2, addr)

op_sth(u, mode2, moder, modek) ==
  LET s2 == 1 - moder
      val == operand(u, mode2, moder, modek, 1)
  IN pushv(operands(u, mode2, moder, modek, 1), mode2, s2, val)

\* s.push(u.mem[i]) and u.mem[i] = v: the subscript raises IndexError
\* outside -len .. len-1
pushmem(u, moder, i) ==
  push(Require(u, IndexOK(u.mem, i)), moder, GetItem(u.mem, i))
store(u, i, v) ==
  IF u.st # "ok" THEN u
  ELSE IF IndexOK(u.mem, i) THEN [u EXCEPT !.mem = SetItem(u.mem, i, v)]
  ELSE Raise(u)

op_ldz(u, mode2, moder, modek) ==
  LET s == Stack(u, moder)
      addr == IF modek = 1 THEN Item(s, 1) ELSE popped(u, moder)
      u1 == IF modek = 1 THEN Require(u, HasItem(s, 1)) ELSE pop(u, moder)
      u2 == pushmem(u1, moder, addr)
  IN IF mode2 = 1 THEN pushmem(u2, moder, addr + 1) ELSE u2

op_stz(u, mode2, moder, modek) ==
  LET s == Stack(u, moder)
      addr == IF modek = 1 THEN Item(s, 1) ELSE popped(u, moder)
      u1 == IF modek = 1 THEN Require(u, HasItem(s, 1)) ELSE pop(u, moder)
      val == IF modek = 1
             THEN (IF mode2 = 1 THEN ushort_peek(s, Len(s) - 4)
                   ELSE Item(s, 2))
             ELSE taken(u1, mode2, moder)
      u2 == IF modek = 1
            THEN Require(u1, IF mode2 = 1 THEN ushort_peek_ok(s, Len(s) - 4)
                             ELSE HasItem(s, 2))
            ELSE take(u1, mode2, moder)
      u3 == store(u2, addr + mode2, val % 256)
  IN IF mode2 = 1 THEN store(u3, addr, (val \div 256) % 256) ELSE u3

op_ldr(u, mode2, moder, modek) ==
  LET s == Stack(u, moder)
      off == speek(s, Len(s) - 1)
      u1 == IF modek = 1 THEN Require(u, speek_ok(s, Len(s) - 1))
            ELSE spop(u, moder)
      u2 == pushmem(u1, moder, u.pc + off)
  IN IF mode2 = 1 THEN pushmem(u2, moder, u.pc + off + 1) ELSE u2

op_str(u, mode2, moder, modek) ==
  LET s == Stack(u, moder)
      off == speek(s, Len(s) - 1)
      u1 == IF modek = 1 THEN Require(u, speek_ok(s, Len(s) - 1))
            ELSE spop(u, moder)
      val == IF modek = 1
             THEN (IF mode2 = 1 THEN ushort_peek(s, Len(s) - 4)
                   ELSE Item(s, 2))
             ELSE taken(u1, mode2, moder)
      u2 == IF modek = 1
            THEN Require(u1, IF mode2 = 1 THEN ushort_peek_ok(s, Len(s) - 4)
                             ELSE HasItem(s, 2))
            ELSE take(u1, mode2, moder)
      u3 == store(u2, u.pc + off + mode2, val % 256)
  IN IF mode2 = 1 THEN store(u3, u.pc + off, (val \div 256) % 256) ELSE u3

op_lda(u, mode2, moder, modek) ==
  LET s == Stack(u, moder)
      addr == Item(s, 1) + Item(s, 2) * 256
      u1 == IF modek = 1 THEN Require(u, HasItem(s, 2))
            ELSE pop(pop(u, moder), moder)
      u2 == pushmem(u1, moder, addr)
  IN IF mode2 = 1 THEN pushmem(u2, moder, addr + 1) ELSE u2

\* the right-hand side s.pop() is evaluated before the subscript
op_sta(u, mode2, moder, modek) ==
  LET addr == ushort_popped(u, moder)
      u1 == ushort_pop(u, moder)
      u2 == store(pop(u1, moder), addr + mode2, popped(u1, moder))
  IN IF mode2 = 1
     THEN store(pop(u2, moder), addr, popped(u2, moder))
     ELSE u2

(***************************************************************************)
(* Devices                                                                 *)
(***************************************************************************)
SYSTEM_DEVICE == 0
SYSTEM_STATE_PORT == 15
CONSOLE_DEVICE == 16
CONSOLE_WRITE_PORT == 8

\* exit(value & 0x7f) raises SystemExit with that code
system_device(u, port, value) ==
  IF u.st # "ok" THEN u
  ELSE IF port = SYSTEM_STATE_PORT
       THEN (IF value # 0 THEN [u EXCEPT !.st = "exit", !.code = value % 128]
             ELSE u)
       ELSE Raise(u)

\* sys.stdout.write(chr(value)): one character, the code point value
console_device(u, port, value) ==
  IF u.st # "ok" THEN u
  ELSE IF port = CONSOLE_WRITE_PORT
       THEN [u EXCEPT !.out = Append(u.out, value)]
       ELSE Raise(u)

op_deo(u, mode2, moder, modek) ==
  LET device_port == popped(u, moder)
      u1 == pop(u, moder)
      device == (device_port \div 16) * 16
      port == device_port % 16
  IN IF u1.st # "ok" THEN u1
     ELSE IF device = SYSTEM_DEVICE
          THEN system_device(pop(u1, moder), port, popped(u1, moder))
     ELSE IF device = CONSOLE_DEVICE
          THEN console_device(pop(u1, moder), port, popped(u1, moder))
     ELSE Raise(u1)

(***************************************************************************)
(* Arithmetic and logic                                                    *)
(***************************************************************************)
RECURSIVE Pow2(_)
Pow2(n) == IF n = 0 THEN 1 ELSE 2 * Pow2(n - 1)

\* a & b, a | b, a ^ b on naturals, bit by bit
RECURSIVE BitAnd(_, _)
BitAnd(a, b) ==
  IF a = 0 \/ b = 0 THEN 0
  ELSE (a % 2) * (b % 2) + 2 * BitAnd(a \div 2, b \div 2)
RECURSIVE BitOr(_, _)
BitOr(a, b) ==
  IF a = 0 THEN b ELSE IF b = 0 THEN a
  ELSE Max(a % 2, b % 2) + 2 * BitOr(a \div 2, b \div 2)
RECURSIVE BitXor(_, _)
BitXor(a, b) ==
  IF a = 0 THEN b ELSE IF b = 0 THEN a
  ELSE ((a + b) % 2) + 2 * BitXor(a \div 2, b \div 2)

op_add(u, mode2, moder, modek) ==
  LET top == operand(u, mode2, moder, modek, 1)
      bot == operand(u, mode2, moder, modek, 2)
      sum == (top + bot) % 65536
  IN pushv(operands(u, mode2, moder, modek, 2), mode2, moder, sum)

op_sub(u, mode2, moder, modek) ==
  LET top == operand(u, mode2, moder, modek, 1)
      bot == operand(u, mode2, moder, modek, 2)
      diff == (bot - top) % 65536
  IN pushv(operands(u, mode2, moder, modek, 2), mode2, moder, diff)

op_mul(u, mode2, moder, modek) ==
  LET top == operand(u, mode2, moder, modek, 1)
      bot == operand(u, mode2, moder, modek, 2)
      \* bot*top & 0xffff, by partial products that stay below 2^31
      diff == (bot * (top % 256)
               + ((bot * (top \div 256)) % 256) * 256) % 65536
  IN pushv(operands(u, mode2, moder, modek, 2), mode2, moder, diff)

\* op_div raising ZeroDivisionError on a zero divisor
op_div_traps(u, mode2, moder, modek) ==
  LET top == operand(u, mode2, moder, modek, 1)
      bot == operand(u, mode2, moder, modek, 2)
      quo == IF top # 0 THEN (bot \div top) % 65536 ELSE 0
      u1 == operands(u, mode2, moder, modek, 2)
  IN IF top = 0 THEN Raise(u1) ELSE pushv(u1, mode2, moder, quo)

op_div(u, mode2, moder, modek) ==
  LET top == operand(u, mode2, moder, modek, 1)
      bot == operand(u, mode2, moder, modek, 2)
      quo == IF top # 0 THEN (bot \div top) % 65536 ELSE 0
  IN pushv(operands(u, mode2, moder, modek, 2), mode2, moder, quo)

op_and(u, mode2, moder, modek) ==
  LET top == operand(u, mode2, moder, modek, 1)
      bot == operand(u, mode2, moder, modek, 2)
      res == BitAnd(bot, top)
  IN pushv(operands(u, mode2, moder, modek, 2), mode2, moder, res)

op_ora(u, mode2, moder, modek) ==
  LET top == operand(u, mode2, moder, modek, 1)
      bot == operand(u, mode2, moder, modek, 2)
      res == BitOr(bot, top)
  IN pushv(operands(u, mode2, moder, modek, 2), mode2, moder, res)

op_eor(u, mode2, moder, modek) ==
  LET top == operand(u, mode2, moder, modek, 1)
      bot == operand(u, mode2, moder, modek, 2)
      res == BitXor(bot, top)
  IN pushv(operands(u, mode2, moder, modek, 2), mode2, moder, res)

\* the shift operand is one byte in every mode; with modek and mode2 the
\* 16-bit operand is read at len(s)-4
op_sft(u, mode2, moder, modek) ==
  LET s == Stack(u, moder)
      top == IF modek = 1 THEN Item(s, 1) ELSE popped(u, moder)
      u1 == IF modek = 1 THEN Require(u, HasItem(s, 1)) ELSE pop(u, moder)
      bot == IF modek = 1
             THEN (IF mode2 = 1 THEN ushort_peek(s, Len(s) - 4)
                   ELSE Item(s, 2))
             ELSE taken(u1, mode2, moder)
      u2 == IF modek = 1
            THEN Require(u1, IF mode2 = 1 THEN ushort_peek_ok(s, Len(s) - 4)
                             ELSE HasItem(s, 2))
            ELSE take(u1, mode2, moder)
      res == (bot \div Pow2(top % 16)) * Pow2((top \div 16) % 16)
  IN IF mode2 = 1
     THEN push(push(u2, moder, (res \div 256) % 256), moder, res % 256)
     ELSE push(u2, moder, res % 256)

(***************************************************************************)
(* OPS, exec_op                                                            *)
(***************************************************************************)
\* the keys of the OPS table: 0x16 has no entry
OPS == (0 .. 31) \ {22}

\* OPS[op_code](u, mode2, moder, modek)
dispatch(op_code, u, mode2, moder, modek) ==
  CASE op_code = 0  -> op_imm(u, mode2, moder, modek)
    [] op_code = 1  -> op_inc(u, mode2, moder, modek)
    [] op_code = 2  -> op_pop(u, mode2, moder, modek)
    [] op_code = 3  -> op_nip(u, mode2, moder, modek)
    [] op_code = 4  -> op_swp(u, mode2, moder, modek)
    [] op_code = 5  -> op_rot(u, mode2, moder, modek)
    [] op_code = 6  -> op_dup(u, mode2, moder, modek)
    [] op_code = 7  -> op_ovr(u, mode2, moder, modek)
    [] op_code = 8  -> op_equ(u, mode2, moder, modek)
    [] op_code = 9  -> op_neq(u, mode2, moder, modek)
    [] op_code = 10 -> op_gth(u, mode2, moder, modek)
    [] op_code = 11 -> op_lth(u, mode2, moder, modek)
    [] op_code = 12 -> op_jmp(u, mode2, moder, modek)
    [] op_code = 13 -> op_jcn(u, mode2, moder, modek)
    [] op_code = 14 -> op_jsr(u, mode2, moder, modek)
    [] op_code = 15 -> op_sth(u, mode2, moder, modek)
    [] op_code = 16 -> op_ldz(u, mode2, moder, modek)
    [] op_code = 17 -> op_stz(u, mode2, moder, modek)
    [] op_code = 18 -> op_ldr(u, mode2, moder, modek)
    [] op_code = 19 -> op_str(u, mode2, moder, modek)
    [] op_code = 20 -> op_lda(u, mode2, moder, modek)
    [] op_code = 21 -> op_sta(u, mode2, moder, modek)
    [] op_code = 23 -> op_deo(u, mode2, moder, modek)
    [] op_code = 24 -> op_add(u, mode2, moder, modek)
    [] op_code = 25 -> op_sub(u, mode2, moder, modek)
    [] op_code = 26 -> op_mul(u, mode2, moder, modek)
    [] op_code = 27 -> op_div(u, mode2, moder, modek)
    [] op_code = 28 -> op_and(u, mode2, moder, modek)
    [] op_code = 29 -> op_ora(u, mode2, moder, modek)
    [] op_code = 30 -> op_eor(u, mode2, moder, modek)
    [] op_code = 31 -> op_sft(u, mode2, moder, modek)

\* the decoding of the opcode byte
OpCode(b) == b % 32
Mode2(b) == (b \div 32) % 2
ModeR(b) == (b \div 64) % 2
ModeK(b) == (b \div 128) % 2

\* exec_op: OPS[op_code] raises KeyError before u.pc += 1
exec_op(u, op_mode_code) ==
  LET op_code == OpCode(op_mode_code)
      mode2 == Mode2(op_mode_code)
      moder == ModeR(op_mode_code)
      modek == ModeK(op_mode_code)
  IN IF u.st # "ok" THEN u
     ELSE IF op_code \notin OPS THEN Raise(u)
     ELSE dispatch(op_code, goto(u, u.pc + 1), mode2, moder, modek)

(***************************************************************************)
(* load_image, run_vector, set_argc, main                                  *)
(***************************************************************************)
RESET == 256
ConsoleVectorPtr == 16

\* load_image: the limit is taken from the current len(u.mem); the slice
\* assigned is mem[0x100 : len(prog)]
load_image(u, p) ==
  IF p.len > u.mem.len - 256 THEN Raise(u)
  ELSE [u EXCEPT !.mem = SetSlice(u.mem, 256, p.len, p)]

\* run_vector starting every vector on an empty working stack
run_vector_clears(u, addr) == [goto(u, addr) EXCEPT !.ws = << >>]

\* run_vector, on entry: u.pc = pc
run_vector(u, addr) == goto(u, addr)

\* run_vector, one turn of its loop: fetch u.mem[u.pc], exec_op
run_vector_loop(u) ==
  IF IndexOK(u.mem, u.pc) THEN exec_op(u, GetItem(u.mem, u.pc))
  ELSE Raise(u)

\* set_argc: u.dev[0x17] = len(sys.argv) - 1
set_argc(u, argc) == [u EXCEPT !.dev = SetItem(u.dev, 23, argc)]

\* main's handler of an Exception: pprint.pprint(dump_state(u)) writes the
\* report to sys.stdout, then the exception is raised again.  The report
\* always starts with the text {'dev': {'console': ' ; out keeps these
\* first characters of it.
dump_state == <<123, 39, 100, 101, 118, 39, 58, 32, 123, 39, 99, 111, 110,
                115, 111, 108, 101, 39, 58, 32, 39>>

\* the addresses the host passes to run_vector: Uxn.RESET in main,
\* u.mem[1] and the console vector of the device page in forward_args
Vectors ==
  {RESET, GetItem(mem, 1),
   GetItem(dev, ConsoleVectorPtr) * 256 + GetItem(dev, ConsoleVectorPtr + 1)}

\* len(sys.argv) - 1: the ROM path, with or without -v before it
Argcs == {1, 2}

\* the Uxn object and the output so far, as a machine record
Machine ==
  [pc |-> pc, mem |-> mem, dev |-> dev, ws |-> ws, rs |-> rs, out |-> out,
   st |-> "ok", code |-> 0]

(***************************************************************************)
(* The state machine.  status is the position of the host:                 *)
(*   "init"      the Uxn object was constructed                            *)
(*   "loaded"    load_image has returned                                   *)
(*   "ready"     set_argc has returned                                     *)
(*   "running"   inside run_vector                                         *)
(*   "returned"  run_vector has returned                                   *)
(*   "error"     an exception left the program (exit code 1)               *)
(*   "exited"    the process has ended with exitCode                       *)
(* prog is the ROM of the last load_image call, lastOp the opcode byte     *)
(* fetched by the last turn of run_vector's loop (-1: none).               *)
(***************************************************************************)
Init ==
  /\ pc = 0
  /\ mem = bytearray(65536)
  /\ dev = bytearray(256)
  /\ ws = << >>
  /\ rs = << >>
  /\ out = << >>
  /\ status = "init"
  /\ exitCode = -1
  /\ loads = 0
  /\ vectors = 0
  /\ prog = bytes(<< >>)
  /\ lastOp = -1

\* load_image(u, rom.read()); in main it is outside the try block
Load(roms, limit) ==
  /\ status \in {"init", "loaded"}
  /\ loads < limit
  /\ \E p \in roms :
       LET m == load_image(Machine, p)
       IN /\ mem' = m.mem
          /\ prog' = p
          /\ status' = IF m.st = "ok" THEN "loaded" ELSE "error"
          /\ exitCode' = IF m.st = "ok" THEN exitCode ELSE 1
  /\ loads' = loads + 1
  /\ UNCHANGED <<pc, dev, ws, rs, out, vectors, lastOp>>

SetArgc ==
  /\ status = "loaded"
  /\ \E argc \in Argcs : dev' = set_argc(Machine, argc).dev
  /\ status' = "ready"
  /\ UNCHANGED <<pc, mem, ws, rs, out, exitCode, loads, vectors, prog, lastOp>>

\* the host enters run_vector(u, addr)
RunVector ==
  /\ status \in {"ready", "returned"}
  /\ vectors < MaxVectors
  /\ \E addr \in Vectors :
       LET m == run_vector(Machine, addr)
       IN /\ pc' = m.pc
          /\ mem' = m.mem
          /\ dev' = m.dev
          /\ ws' = m.ws
          /\ rs' = m.rs
          /\ out' = m.out
  /\ status' = "running"
  /\ vectors' = vectors + 1
  /\ lastOp' = -1
  /\ UNCHANGED <<exitCode, loads, prog>>

\* one turn of the loop of run_vector, with what main does when the turn
\* ends the loop: return on BRK, the report and exit code 1 on an
\* Exception, the exit code of SystemExit
Step ==
  /\ status = "running"
  /\ Len(ws) <= MaxDepth
  /\ Len(rs) <= MaxDepth
  /\ LET m == run_vector_loop(Machine)
     IN /\ pc' = m.pc
        /\ mem' = m.mem
        /\ dev' = m.dev
        /\ ws' = m.ws
        /\ rs' = m.rs
        /\ out' = IF m.st = "err" THEN m.out \o dump_state ELSE m.out
        /\ status' = CASE m.st = "ok" -> "running"
                       [] m.st = "halt" -> "returned"
                       [] m.st = "err" -> "error"
                       [] m.st = "exit" -> "exited"
        /\ exitCode' = CASE m.st = "err" -> 1
                         [] m.st = "exit" -> m.code
                         [] OTHER -> exitCode
  /\ lastOp' = IF IndexOK(mem, pc) THEN GetItem(mem, pc) ELSE -1
  /\ UNCHANGED <<loads, vectors, prog>>

\* main returns after run_vector: the process ends with exit code 0
MainExit ==
  /\ status = "returned"
  /\ status' = "exited"
  /\ exitCode' = 0
  /\ UNCHANGED <<pc, mem, dev, ws, rs, out, loads, vectors, prog, lastOp>>

(***************************************************************************)
(* The ROMs the model loads.                                               *)
(***************************************************************************)
\* operand bytes put on a stack before the opcode under study, top last
Preludes ==
  { <<18, 52, 1, 2, 65, 24>>,      \* 12 34 01 02 41 18
    <<0, 7, 1, 0, 3, 15>>,         \* 00 07 01 00 03 0f
    <<2, 0, 128, 1, 0, 15>>,       \* 02 00 80 01 00 0f
    <<255, 255, 0, 1, 255, 3>>,    \* ff ff 00 01 ff 03
    <<0, 0, 255, 255, 0, 1>>,      \* 00 00 ff ff 00 01
    <<1, 2, 255, 254, 0, 0>>,      \* 01 02 ff fe 00 00
    <<7, 9, 3, 3, 3, 3>>,          \* 07 09 03 03 03 03
    <<18, 52, 1, 0, 1, 255>> }     \* 12 34 01 00 01 ff

\* LIT2 (LIT2r when r = 1) of the six prelude bytes, the opcode, BRK
OpROM(pre, r, op) ==
  bytes(<<160 + 64 * r, pre[1], pre[2], 160 + 64 * r, pre[3], pre[4],
          160 + 64 * r, pre[5], pre[6], op, 0>>)

OpROMs == {OpROM(pre, r, op) : pre \in Preludes, r \in {0, 1}, op \in 0 .. 255}

\* the scenarios of the specification, loops that fill a stack, and ROMs
\* at the size limit
Scenario1 == <<128, 65, 128, 24, 23, 128, 1, 128, 15, 23, 0>>
Scenario2 == <<128, 48, 1, 128, 24, 23, 0>>
NamedROMs ==
  { bytes(Scenario1),
    bytes(Scenario2),
    bytes(<<128, 5, 128, 3, 152, 0>>),       \* LIT 05 LIT 03 ADDk BRK
    bytes(<<128, 10, 128, 0, 27, 0>>),       \* LIT 0a LIT 00 DIV BRK
    bytes(<<128, 5, 129, 0>>),               \* LIT 05 INCk BRK
    bytes(<<128, 1, 64, 255, 251>>),         \* LIT 01 JMI -5
    bytes(<<160, 1, 2, 64, 255, 250>>),      \* LIT2 0102 JMI -6
    bytes(<<128, 0, 14, 64, 255, 250>>),     \* LIT 00 JSR JMI -6
    bytes(<<128, 1, 6, 64, 255, 252>>),      \* LIT 01 DUP JMI -4
    bytes(<<64, 255, 253>>),                 \* JMI -3
    bytes(<<22>>),                           \* DEI
    bytes(<<160, 1, 0, 128, 15, 55, 0>>),    \* LIT2 0100 LIT 0f DEO2 BRK
    bytes(<<160, 65, 66, 128, 24, 55, 0>>),  \* LIT2 4142 LIT 18 DEO2 BRK
    bytes(<<128, 23, 22, 0>>),               \* LIT 17 DEI BRK
    bytes(<<64, 254, 0>>),                   \* JMI -512
    bytes(<<160, 255, 255, 44>>),            \* LIT2 ffff JMP2
    \* LIT2 1234 LIT2 ffff STA2 LIT2 ffff LDA2 BRK
    bytes(<<160, 18, 52, 160, 255, 255, 53, 160, 255, 255, 52, 0>>),
    \* LIT2 1234 LIT2 0200 STA2 LIT2 0200 LDA2 BRK
    bytes(<<160, 18, 52, 160, 2, 0, 53, 160, 2, 0, 52, 0>>),
    \* LIT2 1234 LIT 10 STZ2 LIT 10 LDZ2 BRK
    bytes(<<160, 18, 52, 128, 16, 49, 128, 16, 48, 0>>),
    \* LIT2 1234 LIT 05 STR2 LIT 02 LDR2 BRK
    bytes(<<160, 18, 52, 128, 5, 51, 128, 2, 50, 0>>),
    bytes(<<160, 1, 2, 184, 0>>),            \* LIT2 0102 ADD2k BRK
    bytes(<<96, 0, 1, 0, 108>>),             \* JSI +1 BRK JMP2r
    \* LIT 00 LIT 0e LIT2 ffff STA LIT2 ffff JMP2 (a JSR at 0xffff)
    bytes(<<128, 0, 128, 14, 160, 255, 255, 21, 160, 255, 255, 44>>),
    padded(Scenario2, 65280),
    padded(Scenario2, 65281) }

ROMs == OpROMs \cup NamedROMs

\* ROMs of the lengths around the limits of load_image
LoadROMs ==
  { bytes(<< >>), bytes(<<7>>), bytes(Scenario2),
    padded(<<7>>, 255), padded(Scenario2, 256), padded(Scenario2, 257),
    padded(Scenario2, 65280), padded(Scenario2, 65281),
    padded(Scenario2, 65536) }

(***************************************************************************)
(* Specifications.  Spec is the run of main: one load_image, set_argc,     *)
(* then vectors.  SpecHost is a host that may call load_image again on     *)
(* the same machine.                                                       *)
(***************************************************************************)
Next ==
  \/ Load(ROMs, 1)
  \/ SetArgc
  \/ RunVector
  \/ Step
  \/ MainExit

Spec == Init /\ [][Next]_vars

NextHost ==
  \/ Load(LoadROMs, MaxLoads)
  \/ SetArgc
  \/ RunVector
  \/ Step
  \/ MainExit

SpecHost == Init /\ [][NextHost]_vars

(***************************************************************************)
(* Vocabulary of the properties below, taken from the opcode tables of     *)
(* the specification (not from the handlers).                              *)
(***************************************************************************)
\* the opcode byte the next turn of run_vector's loop fetches (-1: the
\* fetch itself fails)
Fetched == IF IndexOK(mem, pc) THEN GetItem(mem, pc) ELSE -1

\* bytes of one operand of opcode byte b
Width(b) == 1 + Mode2(b)

\* bytes a base opcode reads from its primary stack
OperandBytes(b) ==
  LET c == OpCode(b)
      w == Width(b)
  IN CASE c \in {1, 2, 6, 15} -> w                      \* INC POP DUP STH
       [] c \in {3, 4, 7, 8, 9, 10, 11} -> 2 * w        \* NIP SWP OVR EQU..LTH
       [] c \in {24, 25, 26, 27, 28, 29, 30} -> 2 * w   \* ADD .. EOR
       [] c = 5 -> 3 * w                                \* ROT
       [] c \in {12, 14} -> w                           \* JMP JSR
       [] c = 13 -> w + 1                               \* JCN
       [] c \in {16, 18, 22} -> 1                       \* LDZ LDR DEI
       [] c \in {17, 19, 23, 31} -> 1 + w               \* STZ STR DEO SFT
       [] c = 20 -> 2                                   \* LDA
       [] c = 21 -> 2 + w                               \* STA
       [] OTHER -> 0

\* bytes a base opcode pushes onto its primary stack
Pushed(b) ==
  LET c == OpCode(b)
      w == Width(b)
  IN CASE c \in {1, 3, 16, 18, 20, 22, 31} -> w         \* INC NIP LDx DEI SFT
       [] c \in {24, 25, 26, 27, 28, 29, 30} -> w       \* ADD .. EOR
       [] c \in {4, 6} -> 2 * w                         \* SWP DUP
       [] c \in {5, 7} -> 3 * w                         \* ROT OVR
       [] c \in {8, 9, 10, 11} -> 1                     \* EQU NEQ GTH LTH
       [] OTHER -> 0                                    \* POP Jxx STH STx DEO

\* the last n bytes of a stack
Top(s, n) == SubSeq(s, Len(s) - n + 1, Len(s))

\* the opcode bytes of the base opcodes 0x01..0x1F without / with modek
PlainOpcodes == {b \in 0 .. 127 : OpCode(b) # 0}
KeepOpcodes == {b \in 128 .. 255 : OpCode(b) # 0}

(***************************************************************************)
(* C1.  After every instruction the working stack and the return stack     *)
(* each hold between 0 and 256 bytes.                                      *)
(***************************************************************************)
C1_StackWithinCapacity == Len(ws) <= capacity /\ Len(rs) <= capacity

(***************************************************************************)
(* C2.  A base opcode with modek = 1 executed on a stack holding enough    *)
(* operands consumes none of them: the primary stack afterwards is the     *)
(* stack before followed by the bytes the opcode pushes.                   *)
(***************************************************************************)
C2_KeepConsumesNothing ==
  status = "running" =>
    \A b \in KeepOpcodes :
      LET m == exec_op(Machine, b)
          before == Stack(Machine, ModeR(b))
          after == Stack(m, ModeR(b))
      IN (Len(before) >= OperandBytes(b) /\ m.st = "ok") =>
           /\ Len(after) = Len(before) + Pushed(b)
           /\ SubSeq(after, 1, Len(before)) = before

(***************************************************************************)
(* C3.  Keep mode changes only consumption: from the same state the keep   *)
(* variant of a base opcode completes whenever the plain variant does,     *)
(* pushes the same result bytes, writes the same memory and sets the same  *)
(* PC.                                                                     *)
(***************************************************************************)
C3_KeepSameResult ==
  status = "running" =>
    \A b \in PlainOpcodes :
      LET plain == exec_op(Machine, b)
          keep == exec_op(Machine, b + 128)
          other == 1 - ModeR(b)
      IN plain.st = "ok" =>
           /\ keep.st = "ok"
           /\ keep.pc = plain.pc
           /\ keep.mem = plain.mem
           /\ keep.out = plain.out
           /\ Len(Stack(keep, ModeR(b))) >= Pushed(b)
           /\ Top(Stack(keep, ModeR(b)), Pushed(b))
                = Top(Stack(plain, ModeR(b)), Pushed(b))
           /\ Stack(keep, other) = Stack(plain, other)

(***************************************************************************)
(* C4.  run_vector returns normally exactly when the fetched opcode byte   *)
(* is 0x00: every other byte keeps the loop going (or leaves it by an      *)
(* error or an exit, never by a normal return); 0x20, 0x40 and 0x60 are    *)
(* executed as JCI, JMI and JSI and the bytes of base 0 with bit 7 set as  *)
(* LIT; a JMI that jumps onto itself never returns.                        *)
(***************************************************************************)
\* the turn of the loop ended as the handler result m says
StepIs(m) ==
  /\ pc' = m.pc
  /\ ws' = m.ws
  /\ rs' = m.rs
  /\ mem' = m.mem
  /\ status' = (CASE m.st = "ok" -> "running"
                  [] m.st = "halt" -> "returned"
                  [] m.st = "err" -> "error"
                  [] m.st = "exit" -> "exited")

C4_ReturnOnlyOnBRK ==
  [][status = "running" =>
       /\ (status' = "returned") <=> (Fetched = 0)
       /\ Fetched = 32 => StepIs(op_jci(goto(Machine, pc + 1)))
       /\ Fetched = 64 => StepIs(op_jmi(goto(Machine, pc + 1)))
       /\ Fetched = 96 => StepIs(op_jsi(goto(Machine, pc + 1)))
       /\ (Fetched >= 128 /\ OpCode(Fetched) = 0) =>
            StepIs(op_lit(goto(Machine, pc + 1),
                          Mode2(Fetched), ModeR(Fetched), 1))
       /\ (prog = bytes(<<64, 255, 253>>) /\ pc = RESET) =>
            (status' = "running" /\ pc' = RESET)]_vars

\* a vector has run instructions, fetched 0x00 and returned
C4_Witness == status = "returned" /\ lastOp = 0 /\ Len(ws) > 0 /\ out # << >>

(***************************************************************************)
(* C5.  State is carried between vector invocations: the BRK that ends a   *)
(* vector leaves both stacks, the memory and the device page as the last   *)
(* instruction left them, nothing executes while no vector runs, and       *)
(* entering the next run_vector changes PC only.                           *)
(***************************************************************************)
C5_StateKeptAcrossVectors ==
  [][/\ (status = "running" /\ status' = "returned") =>
          (ws' = ws /\ rs' = rs /\ mem' = mem /\ dev' = dev /\ out' = out)
     /\ status = "returned" =>
          /\ ws' = ws /\ rs' = rs /\ mem' = mem /\ dev' = dev /\ out' = out
          /\ status' = "running" => pc' \in Vectors
          /\ status' # "running" => pc' = pc]_vars

\* a second vector has been entered with what the first left on the stacks
C5_Witness ==
  /\ vectors = 2
  /\ status = "running"
  /\ lastOp = -1
  /\ Len(ws) > 0
  /\ Len(rs) > 0

(***************************************************************************)
(* C6.  After a ROM of n <= 0xFF00 bytes is loaded into a fresh machine    *)
(* the memory still has 65,536 bytes, holds the ROM at 0x0100 .. 0x0100 +  *)
(* n - 1 and is zero everywhere else.                                      *)
(***************************************************************************)
C6_LoadKeepsMemorySize ==
  (loads = 1 /\ status = "loaded") =>
    /\ mem.len = 65536
    /\ \A i \in 0 .. prog.len - 1 : GetItem(mem, 256 + i) = ByteAt(prog, i)
    /\ \A a \in DOMAIN mem.nz : 256 <= a /\ a < 256 + prog.len

(***************************************************************************)
(* C7.  On every load, the first or a later one, a ROM longer than 0xFF00  *)
(* bytes is refused with an error and the memory is left as it was, and a  *)
(* ROM of at most 0xFF00 bytes is accepted.                                *)
(***************************************************************************)
C7_LoadLimitOnEveryLoad ==
  [][loads' = loads + 1 =>
       /\ prog'.len > 65280 => (status' = "error" /\ mem' = mem)
       /\ prog'.len <= 65280 => status' = "loaded"]_vars

(***************************************************************************)
(* C8.  DEO stores the value in the device page: after DEO of value byte   *)
(* v to a System or Console port p, device-page byte p is v; DEO2 takes    *)
(* the port byte and a 16-bit value (three bytes) and stores the high      *)
(* byte at p and the low byte at p+1.                                      *)
(***************************************************************************)
\* the next instruction is a DEO whose operands are on its primary stack
DeoNext ==
  /\ status = "running"
  /\ Fetched >= 0
  /\ OpCode(Fetched) = 23
  /\ Len(Stack(Machine, ModeR(Fetched))) >= 1 + Width(Fetched)
\* its port byte, and the byte it is to write to that port: the value
\* byte, or the high byte of the 16-bit value of DEO2
DeoPort == Item(Stack(Machine, ModeR(Fetched)), 1)
DeoByte == Item(Stack(Machine, ModeR(Fetched)), 1 + Width(Fetched))
DeoLowByte == Item(Stack(Machine, ModeR(Fetched)), 2)

C8_DeoWritesDevicePage ==
  [][(DeoNext /\ DeoPort < 32) =>
       /\ GetItem(dev', DeoPort) = DeoByte
       /\ Mode2(Fetched) = 1 =>
            /\ GetItem(dev', (DeoPort + 1) % 256) = DeoLowByte
            /\ ModeK(Fetched) = 0 => IF ModeR(Fetched) = 1
                                     THEN Len(rs') = Len(rs) - 3
                                     ELSE Len(ws') = Len(ws) - 3]_vars

(***************************************************************************)
(* C9.  A DEO that writes a non-zero byte v to port 0x0F ends the process  *)
(* with exit code v & 0x7F and nothing runs after it; a DEO that writes 0  *)
(* to port 0x0F goes on with the next instruction; the process that        *)
(* returns from its vector on BRK ends with exit code 0.                   *)
(***************************************************************************)
C9_HaltOnSystemState ==
  [][/\ status # "exited"
     /\ (DeoNext /\ DeoPort = 15 /\ DeoByte # 0) =>
          (status' = "exited" /\ exitCode' = DeoByte % 128)
     /\ (DeoNext /\ DeoPort = 15 /\ DeoByte = 0) =>
          (status' = "running" /\ pc' = pc + 1)
     /\ (status = "returned" /\ status' = "exited") => exitCode' = 0]_vars

(***************************************************************************)
(* C10.  Standard output is exactly the bytes written to port 0x18 by the  *)
(* DEO instructions executed, in order, one character for each such DEO;   *)
(* nothing else adds to it.                                                *)
(***************************************************************************)
C10_OutputIsConsoleWrites ==
  [][out' = out \o (IF DeoNext /\ DeoPort = 24 THEN <<DeoByte>> ELSE << >>)]_vars

(***************************************************************************)
(* Vocabulary of the properties of single instructions.                    *)
(***************************************************************************)
\* the loop is about to fetch an opcode byte
Fetching == status = "running" /\ Fetched >= 0

\* the primary stack of the fetched instruction, before and after it
Primary == Stack(Machine, ModeR(Fetched))
PrimaryAfter == IF ModeR(Fetched) = 1 THEN rs' ELSE ws'

\* the other stack of the fetched instruction, before and after it
Other == Stack(Machine, 1 - ModeR(Fetched))
OtherAfter == IF ModeR(Fetched) = 1 THEN ws' ELSE rs'

\* the primary stack once the fetched instruction has consumed n bytes:
\* nothing is consumed in keep mode
Consumed(n) ==
  IF ModeK(Fetched) = 1 THEN Primary
  ELSE SubSeq(Primary, 1, Len(Primary) - n)

\* the operand of the fetched width that ends k bytes below the top
\* (k = 0: the top operand), as an unsigned value
Operand(k) ==
  IF Mode2(Fetched) = 1
  THEN Item(Primary, k + 2) * 256 + Item(Primary, k + 1)
  ELSE Item(Primary, k + 1)

\* the value v in the fetched width, big-endian
BigEndian(v) ==
  IF Mode2(Fetched) = 1 THEN <<(v \div 256) % 256, v % 256>> ELSE <<v % 256>>

(***************************************************************************)
(* C11.  DEI (base opcode 0x16) is executable: with port byte p on top of  *)
(* the primary stack it pops p and pushes device-page byte p (then byte    *)
(* p+1 when mode2), leaves the device page unchanged and does not fail;    *)
(* every base opcode fetched by the loop has a handler.                    *)
(***************************************************************************)
C11_DeiReadsDevicePage ==
  [][/\ Fetching => OpCode(Fetched) \in OPS
     /\ (/\ Fetching
         /\ OpCode(Fetched) = 22
         /\ Len(Primary) >= 1
         /\ Len(Consumed(1)) + Width(Fetched) <= capacity) =>
          /\ status' = "running"
          /\ dev' = dev
          /\ PrimaryAfter =
               Consumed(1)
               \o <<GetItem(dev, Item(Primary, 1))>>
               \o (IF Mode2(Fetched) = 1
                   THEN <<GetItem(dev, (Item(Primary, 1) + 1) % 256)>>
                   ELSE << >>)]_vars

(***************************************************************************)
(* C12.  PC is a 16-bit quantity: after every instruction of every run PC  *)
(* is in 0 .. 0xFFFF, an advance or jump across either end continues at    *)
(* the address modulo 0x10000.                                             *)
(***************************************************************************)
C12_PCWithin16Bits == pc \in 0 .. 65535

(***************************************************************************)
(* C13.  16-bit memory round trip with masked addresses: STA2 of v to a    *)
(* stores the high byte at a and the low byte at (a+1) & 0xFFFF and        *)
(* changes no other byte of memory, LDA2 from a pushes the bytes at a and  *)
(* (a+1) & 0xFFFF, so that LDA2 after STA2 gives v back, also for          *)
(* a = 0xFFFF; the same for STZ2/LDZ2 and STR2/LDR2 at their addresses.    *)
(***************************************************************************)
\* the fetched instruction is the short-mode, non-keep form of base opcode
\* c and its n operand bytes are on the primary stack
Short(c, n) ==
  /\ Fetching
  /\ OpCode(Fetched) = c
  /\ Mode2(Fetched) = 1
  /\ ModeK(Fetched) = 0
  /\ Len(Primary) >= n

\* the address operand on top of the primary stack: absolute (LDA, STA),
\* zero-page (LDZ, STZ), relative to the advanced PC (LDR, STR)
AbsAddr == Item(Primary, 2) * 256 + Item(Primary, 1)
ZeroAddr == Item(Primary, 1)
RelAddr == (pc + 1 + Signed8(Item(Primary, 1))) % 65536

\* memory after a 16-bit store of hi, lo at address a, both addresses masked
Poke16(a, hi, lo) == SetItem(SetItem(mem, a, hi), (a + 1) % 65536, lo)

\* the primary stack after a 16-bit load from a that consumed n bytes
Peek16(a, n) ==
  Consumed(n) \o <<GetItem(mem, a), GetItem(mem, (a + 1) % 65536)>>

C13_Short16RoundTrip ==
  [][/\ Short(21, 4) =>
          /\ status' = "running"
          /\ mem' = Poke16(AbsAddr, Item(Primary, 4), Item(Primary, 3))
          /\ PrimaryAfter = Consumed(4)
          /\ LET stored == exec_op(Machine, Fetched)
                 again == extend(stored, ModeR(Fetched),
                                 <<Item(Primary, 2), Item(Primary, 1)>>)
                 loaded == exec_op(again, Fetched - 1)
             IN /\ loaded.st = "ok"
                /\ Top(Stack(loaded, ModeR(Fetched)), 2)
                     = <<Item(Primary, 4), Item(Primary, 3)>>
     /\ Short(20, 2) =>
          (status' = "running" /\ mem' = mem /\ PrimaryAfter = Peek16(AbsAddr, 2))
     /\ Short(17, 3) =>
          /\ status' = "running"
          /\ mem' = Poke16(ZeroAddr, Item(Primary, 3), Item(Primary, 2))
          /\ PrimaryAfter = Consumed(3)
     /\ Short(16, 1) =>
          (status' = "running" /\ mem' = mem /\ PrimaryAfter = Peek16(ZeroAddr, 1))
     /\ Short(19, 3) =>
          /\ status' = "running"
          /\ mem' = Poke16(RelAddr, Item(Primary, 3), Item(Primary, 2))
          /\ PrimaryAfter = Consumed(3)
     /\ Short(18, 1) =>
          (status' = "running" /\ mem' = mem /\ PrimaryAfter = Peek16(RelAddr, 1))]_vars

(***************************************************************************)
(* C14.  ADD, SUB, MUL and DIV on operands N (next) and T (top) of the     *)
(* selected width w push (N+T) mod 2^w, (N-T) mod 2^w, (N*T) mod 2^w and   *)
(* floor(N/T), big-endian in w/8 bytes; DIV with T = 0 pushes 0 and does   *)
(* not fail.  Nothing else changes but the PC, which moves to the next     *)
(* instruction.                                                            *)
(***************************************************************************)
\* 2^w for the fetched width
Modulus == IF Mode2(Fetched) = 1 THEN 65536 ELSE 256

\* the fetched instruction has base opcode c, its two operands are on the
\* primary stack and the stack has room for a result of n bytes
Binary(c, n) ==
  /\ Fetching
  /\ OpCode(Fetched) = c
  /\ Len(Primary) >= 2 * Width(Fetched)
  /\ Len(Consumed(2 * Width(Fetched))) + n <= capacity

\* what the fetched two-operand instruction leaves when its result is v
Result(v) ==
  /\ status' = "running"
  /\ pc' = pc + 1
  /\ PrimaryAfter = Consumed(2 * Width(Fetched)) \o v
  /\ OtherAfter = Other
  /\ mem' = mem
  /\ dev' = dev
  /\ out' = out

\* the operands N and T of the fetched two-operand instruction
OperandN == Operand(Width(Fetched))
OperandT == Operand(0)

C14_ArithmeticModuloWidth ==
  [][/\ Binary(24, Width(Fetched)) =>
          Result(BigEndian((OperandN + OperandT) % Modulus))
     /\ Binary(25, Width(Fetched)) =>
          Result(BigEndian((OperandN - OperandT) % Modulus))
     /\ Binary(26, Width(Fetched)) =>
          Result(BigEndian((OperandN * OperandT) % Modulus))
     /\ Binary(27, Width(Fetched)) =>
          Result(BigEndian(IF OperandT = 0 THEN 0
                           ELSE OperandN \div OperandT))]_vars

\* ADD2 of 0xFFFF and 0x0001 has left 0x00 0x00, and DIV by zero its 0
C14_Witness ==
  /\ status = "running"
  /\ \/ lastOp = 56 /\ ws = <<0, 0, 0, 0>> /\ GetItem(mem, 260) = 255
     \/ lastOp = 27 /\ ws = <<1, 2, 255, 254, 0>>

(***************************************************************************)
(* C15.  In byte and short mode, keep and non-keep alike, a comparison     *)
(* pushes exactly one byte, 0 or 1: EQU 1 iff N = T, NEQ 1 iff N # T, GTH  *)
(* 1 iff N > T and LTH 1 iff N < T on the unsigned operands.               *)
(***************************************************************************)
C15_ComparisonsPushFlag ==
  [][/\ Binary(8, 1) => Result(<<IF OperandN = OperandT THEN 1 ELSE 0>>)
     /\ Binary(9, 1) => Result(<<IF OperandN # OperandT THEN 1 ELSE 0>>)
     /\ Binary(10, 1) => Result(<<IF OperandN > OperandT THEN 1 ELSE 0>>)
     /\ Binary(11, 1) => Result(<<IF OperandN < OperandT THEN 1 ELSE 0>>)]_vars

\* LTHk of N = 0x03 and T = 0x0f has pushed 1 above its operands
C15_Witness ==
  /\ status = "running"
  /\ lastOp = 139
  /\ ws = <<0, 7, 1, 0, 3, 15, 1>>

(***************************************************************************)
(* C16.  Stack underflow is always fatal: an instruction of a base opcode  *)
(* executed, in any mode, while its primary stack holds fewer bytes than   *)
(* the operands it reads fails with an error and run_vector unwinds; it    *)
(* never completes.                                                        *)
(***************************************************************************)
C16_UnderflowIsFatal ==
  [][(/\ Fetching
      /\ OpCode(Fetched) # 0
      /\ Len(Primary) < OperandBytes(Fetched)) => status' = "error"]_vars

(***************************************************************************)
(* C17.  Byte-mode relative jumps are taken from the PC already advanced   *)
(* past the opcode, the offset read as a signed byte: JMP fetched at A     *)
(* with offset byte b sets PC to A + 1 + signed(b); JCN pops the offset    *)
(* and then the condition byte and sets PC to A + 1 + signed(b) when the   *)
(* condition is non-zero and to A + 1 when it is zero, consuming both      *)
(* bytes either way; JMP2 and JCN2 set PC to the popped 16-bit address.    *)
(***************************************************************************)
\* the fetched instruction is the non-keep form of base opcode c in mode
\* m2 and its n operand bytes are on the primary stack
Plain(c, m2, n) ==
  /\ Fetching
  /\ OpCode(Fetched) = c
  /\ Mode2(Fetched) = m2
  /\ ModeK(Fetched) = 0
  /\ Len(Primary) >= n

\* the fetched jump consumed n bytes and continues at address a
JumpsTo(a, n) ==
  /\ status' = "running"
  /\ pc' = a
  /\ PrimaryAfter = Consumed(n)
  /\ OtherAfter = Other
  /\ mem' = mem

C17_JumpsFromAdvancedPC ==
  [][/\ Plain(12, 0, 1) => JumpsTo(pc + 1 + Signed8(Item(Primary, 1)), 1)
     /\ Plain(12, 1, 2) => JumpsTo(AbsAddr, 2)
     /\ Plain(13, 0, 2) =>
          JumpsTo(IF Item(Primary, 2) # 0
                  THEN pc + 1 + Signed8(Item(Primary, 1))
                  ELSE pc + 1, 2)
     /\ Plain(13, 1, 3) =>
          JumpsTo(IF Item(Primary, 3) # 0 THEN AbsAddr ELSE pc + 1, 3)]_vars

\* the JMP fetched at 0x0109 with offset byte 0xff has set PC to 0x0109
C17_Witness ==
  /\ status = "running"
  /\ lastOp = 12
  /\ pc = 265
  /\ ws = <<18, 52, 1, 0, 1>>

(***************************************************************************)
(* C18.  Subroutine linkage round trip: a JSI fetched at A with signed     *)
(* 16-bit offset o pushes the two bytes of the return address A+3, high    *)
(* then low, onto the return stack, leaves the working stack as it is and  *)
(* sets PC to A+3+o; a JMP2r executed with the return stack at that depth  *)
(* sets PC to A+3 and leaves the return stack as it was before the JSI.    *)
(* JSR and JSR2 push the PC following the JSR opcode onto the other stack, *)
(* jump as JMP does, and return the same way.                              *)
(***************************************************************************)
\* the return address a as the two bytes pushed for it
Link(a) == <<(a \div 256) % 256, a % 256>>

\* the signed 16-bit offset that follows the opcode fetched at pc
Offset16 ==
  Signed16(GetItem(mem, (pc + 1) % 65536) * 256
           + GetItem(mem, (pc + 2) % 65536))

\* the machine after the fetched instruction and then the JMP2 (opcode
\* byte ret: JMP2 or JMP2r) of a callee that returns at once
Returned(ret) == exec_op(exec_op(Machine, Fetched), ret)

C18_LinkageRoundTrip ==
  [][/\ (Fetching /\ Fetched = 96 /\ Len(rs) + 2 <= capacity) =>
          /\ status' = "running"
          /\ rs' = rs \o Link(pc + 3)
          /\ ws' = ws
          /\ pc' = pc + 3 + Offset16
          /\ Returned(108).st = "ok"
          /\ Returned(108).pc = (pc + 3) % 65536
          /\ Returned(108).rs = rs
          /\ Returned(108).ws = ws
     /\ (/\ Plain(14, Mode2(Fetched), Width(Fetched))
         /\ Len(Other) + 2 <= capacity) =>
          LET ret == 44 + 64 * (1 - ModeR(Fetched))
          IN /\ status' = "running"
             /\ OtherAfter = Other \o Link(pc + 1)
             /\ PrimaryAfter = Consumed(Width(Fetched))
             /\ pc' = IF Mode2(Fetched) = 1 THEN AbsAddr
                      ELSE pc + 1 + Signed8(Item(Primary, 1))
             /\ Returned(ret).st = "ok"
             /\ Returned(ret).pc = (pc + 1) % 65536
             /\ Stack(Returned(ret), 1 - ModeR(Fetched)) = Other
             /\ Stack(Returned(ret), ModeR(Fetched))
                  = Consumed(Width(Fetched))]_vars

(***************************************************************************)
(* C19.  Device writes by port class: a DEO to a System port other than    *)
(* 0x0F or to a Console port other than 0x18 stores the byte, writes no    *)
(* output, neither halts nor fails, and execution goes on with the next    *)
(* instruction; a DEO to a port of any other device (0x20 .. 0xFF) is      *)
(* fatal to the vector.                                                    *)
(***************************************************************************)
C19_DeoByPortClass ==
  [][/\ (DeoNext /\ DeoPort < 32 /\ DeoPort \notin {15, 24}) =>
          /\ status' = "running"
          /\ pc' = pc + 1
          /\ out' = out
          /\ GetItem(dev', DeoPort) = DeoByte
     /\ (DeoNext /\ DeoPort >= 32) => status' = "error"]_vars

(***************************************************************************)
(* C20.  Return mode is a pure swap of the stack roles: for every base     *)
(* opcode 0x01..0x1F and for LIT, in every mode2 and modek and from every  *)
(* state, the opcode with moder = 1 run on (WS, RS) = (a, b) ends as the   *)
(* opcode with moder = 0 run on (WS, RS) = (b, a) does, with the same PC,  *)
(* memory, device page and output and with the two stacks exchanged; an    *)
(* opcode other than JSR and STH leaves its non-primary stack untouched.   *)
(***************************************************************************)
\* the machine with the contents of its two stacks exchanged
Swapped(u) == [u EXCEPT !.ws = u.rs, !.rs = u.ws]

\* the fetched instruction is a base opcode or LIT in return mode
ReturnMode ==
  /\ Fetching
  /\ ModeR(Fetched) = 1
  /\ (OpCode(Fetched) # 0 \/ ModeK(Fetched) = 1)

\* the same opcode with moder = 0, run on the exchanged stacks, and its
\* result with the stacks exchanged back
Twin == Swapped(exec_op(Swapped(Machine), Fetched - 64))

C20_ReturnModeSwapsStacks ==
  [][/\ ReturnMode =>
          /\ StepIs(Twin)
          /\ dev' = Twin.dev
          /\ Twin.st # "err" => out' = Twin.out
          /\ Twin.st = "exit" => exitCode' = Twin.code
     /\ (/\ Fetching
         /\ (OpCode(Fetched) # 0 \/ ModeK(Fetched) = 1)
         /\ OpCode(Fetched) \notin {14, 15}) => OtherAfter = Other]_vars

\* an instruction in return mode has run, the two stacks hold different
\* bytes
C20_Witness ==
  /\ status = "running"
  /\ lastOp >= 0
  /\ ModeR(lastOp) = 1
  /\ OpCode(lastOp) = 15
  /\ Len(ws) > 0
  /\ Len(rs) > 0
  /\ ws # rs

====
